---- MODULE Spec2Model ----
(***************************************************************************)
(* The SoundCloud converter of src/app.py as a state machine: POST /       *)
(* (download_route and download_soundcloud_to_mp3), the one-shot deletion  *)
(* timer it starts, and GET /cleanup, all acting on the shared downloads   *)
(* directory.  The extraction tool, the dependency probe, the clock, the   *)
(* random token and a failing os.remove are the environment's choices.     *)
(***************************************************************************)
EXTENDS Naturals, Integers, Sequences, FiniteSets, TLC

\* ---------------------------------------------------------------------------
\* Bounds of the model
\* ---------------------------------------------------------------------------
MaxRequests == 2      \* POST / requests handled in one behaviour
MaxTicks == 2         \* clock advances in one behaviour

\* ---------------------------------------------------------------------------
\* Program constants
\* ---------------------------------------------------------------------------
MAX_FILE_SIZE == 104857600
TIMER_DELAY == 60
MAX_AGE == 3600
TOOL_TIMEOUT == 300
StartTime == 2 * MAX_AGE   \* the clock when the server starts serving

ALLOWED_DOMAINS == {"soundcloud.com", "on.soundcloud.com", "m.soundcloud.com"}
ALLOWED_FORMATS == {"mp3", "wav", "aac"}
MP3_QUALITIES == {"128", "192", "256", "320"}
TOOLS == {"yt-dlp", "ffmpeg"}

\* ---------------------------------------------------------------------------
\* Request values.  A URL string is kept by its parts: surrounding
\* whitespace, the verdict of validators.url on the bare text, and the three
\* parts of urlparse's netloc.  A form or JSON value may be absent or may be
\* a JSON value that is not a string.
\* ---------------------------------------------------------------------------
Url(kind, pad, wf, userinfo, host, port, rest) ==
    [kind |-> kind, pad |-> pad, wf |-> wf, userinfo |-> userinfo,
     host |-> host, port |-> port, rest |-> rest]

EmptyUrl == Url("str", FALSE, FALSE, "", "", "", "")
AbsentUrl == Url("absent", FALSE, FALSE, "", "", "", "")
NonStringUrl == Url("nonstr", FALSE, FALSE, "", "", "", "")

PlainUrl == Url("str", FALSE, TRUE, "", "soundcloud.com", "", "/a/b")
EvilUrl == Url("str", FALSE, TRUE, "", "evil.example.com", "", "/x")

GoodUrls ==
    { PlainUrl,
      Url("str", FALSE, TRUE, "", "on.soundcloud.com", "", "/x1"),
      Url("str", TRUE, TRUE, "", "M.SoundCloud.COM", "", "/a/b") }

BadUrls ==
    { EvilUrl,
      Url("str", FALSE, TRUE, "", "evil.example.com", "", "/soundcloud.com?u=soundcloud.com"),
      Url("str", FALSE, TRUE, "", "soundcloud.com.evil.example", "", "/a/b"),
      Url("str", FALSE, TRUE, "soundcloud.com", "evil.example.com", "", "/a/b"),
      Url("str", FALSE, TRUE, "", "soundcloud.com", "443", "/a/b"),
      Url("str", FALSE, FALSE, "", "", "", "not a url"),
      Url("str", TRUE, FALSE, "", "", "", ""),
      AbsentUrl, NonStringUrl }

UrlInputs == GoodUrls \cup BadUrls

Absent == "<absent>"
NonString == "<json 7>"
FormatInputs == {"mp3", "MP3", "wav", "aac", "flac", Absent, NonString}
QualityInputs == {"320", "999", Absent}

\* str.lower() on the strings of the model
Lower(s) ==
    CASE s = "M.SoundCloud.COM" -> "m.soundcloud.com"
      [] s = "MP3" -> "mp3"
      [] OTHER -> s

\* str.strip(): the surrounding whitespace goes, the text stays
Strip(u) == [u EXCEPT !.pad = FALSE]

\* truthiness of a str: only the empty string is falsy
IsEmptyString(u) == ~u.pad /\ u.host = "" /\ u.userinfo = "" /\ u.port = "" /\ u.rest = ""

\* ---------------------------------------------------------------------------
\* Exceptions and messages.  A message is the sequence of its fragments, so
\* that "x in message" is a search for a fragment.
\* ---------------------------------------------------------------------------
Exc(type, msg, stderr) == [type |-> type, msg |-> msg, stderr |-> stderr]
NoExc == Exc("none", <<>>, <<>>)
DownloadError(msg) == Exc("DownloadError", msg, <<>>)

Contains(msg, fragment) == \E i \in DOMAIN msg : msg[i] = fragment

\* ', '.join(names) for the names in the order check_dependencies appends them
JoinTools(missing) ==
    IF missing = TOOLS THEN <<"yt-dlp", ", ", "ffmpeg">>
    ELSE IF missing = {"yt-dlp"} THEN <<"yt-dlp">>
    ELSE IF missing = {"ffmpeg"} THEN <<"ffmpeg">>
    ELSE <<>>

\* ---------------------------------------------------------------------------
\* validate_soundcloud_url: (is_valid, message)
\* ---------------------------------------------------------------------------
ValidatorsUrl(u) == u.wf /\ ~u.pad

\* a containment test where the code tests membership
NetlocContainsAllowed(u) ==
    \/ Lower(u.host) \in ALLOWED_DOMAINS
    \/ u.host = "soundcloud.com.evil.example"
    \/ u.userinfo = "soundcloud.com"

NetlocAllowed(u) ==
    /\ u.userinfo = ""
    /\ u.port = ""
    /\ Lower(u.host) \in ALLOWED_DOMAINS


validate_soundcloud_url(u) ==
    IF ~ValidatorsUrl(u) THEN [ok |-> FALSE, message |-> <<"Invalid URL format">>]
    ELSE IF ~NetlocAllowed(u) THEN [ok |-> FALSE, message |-> <<"URL must be from SoundCloud">>]
    ELSE [ok |-> TRUE, message |-> <<"Valid URL">>]

\* check_dependencies: the names shutil.which does not find
check_dependencies(found) == TOOLS \ found

\* ---------------------------------------------------------------------------
\* download_route, before the pipeline: reading and checking the request
\* ---------------------------------------------------------------------------
RouteExcept(e) ==
    IF e.type = "DownloadError"
    THEN [status |-> 400, error |-> e.msg]
    ELSE [status |-> 500, error |-> <<"An unexpected error occurred">>]

AttributeError(what) == Exc("AttributeError", <<what>>, <<>>)

CoerceQuality(format, quality) ==
    IF format = "mp3" /\ quality \notin MP3_QUALITIES THEN "192" ELSE quality

FormatAllowed(format) == format \in ALLOWED_FORMATS

\* [proceed, status, error, exc, url, format, quality]: either the response
\* the handler gives before it reaches the pipeline, or the pipeline's
\* arguments
ParseRequest(url_in, format_in, quality_in) ==
    LET stop(status, error, exc) ==
            [proceed |-> FALSE, status |-> status, error |-> error, exc |-> exc,
             url |-> EmptyUrl, format |-> "", quality |-> ""]
        crash(what) ==
            stop(RouteExcept(AttributeError(what)).status,
                 RouteExcept(AttributeError(what)).error, AttributeError(what))
        url == Strip(IF url_in.kind = "absent" THEN EmptyUrl ELSE url_in)
        format == Lower(IF format_in = Absent THEN "mp3" ELSE format_in)
        quality == IF quality_in = Absent THEN "192" ELSE quality_in
    IN  IF url_in.kind = "nonstr" THEN crash("no attribute 'strip'")
        ELSE IF format_in = NonString THEN crash("no attribute 'lower'")
        ELSE IF IsEmptyString(url)
             THEN stop(400, <<"Please provide a SoundCloud URL">>, NoExc)
        ELSE IF ~FormatAllowed(format)
             THEN stop(400, <<"Unsupported audio format">>, NoExc)
        ELSE [proceed |-> TRUE, status |-> 0, error |-> <<>>, exc |-> NoExc,
              url |-> url, format |-> format,
              quality |-> CoerceQuality(format, quality)]

\* ---------------------------------------------------------------------------
\* download_soundcloud_to_mp3: what the try body raises before the tool runs,
\* and the except clauses every exception of the try body goes through
\* ---------------------------------------------------------------------------
ExecutePre(url, found) ==
    LET v == validate_soundcloud_url(url)
        missing == check_dependencies(found)
    IN  IF ~v.ok THEN DownloadError(v.message)
        ELSE IF missing # {} THEN DownloadError(<<"Missing dependencies: ">> \o JoinTools(missing))
        ELSE NoExc

ClassifyError(error_msg) ==
    IF Contains(error_msg, "Private video") \/ Contains(error_msg, "not available")
    THEN DownloadError(<<"Track is private or not available">>)
    ELSE IF Contains(error_msg, "Unsupported URL")
    THEN DownloadError(<<"Unsupported SoundCloud URL">>)
    ELSE DownloadError(<<"Download failed: ">> \o error_msg)

\* e is what the try body raised; the value is what leaves the function.  An
\* exception raised inside an except clause is not caught by a later clause.
ExecuteExcept(e) ==
    IF e.type = "TimeoutExpired"
    THEN DownloadError(<<"Download timeout - file may be too large or connection slow">>)
    ELSE IF e.type = "CalledProcessError"
    THEN IF e.stderr # <<>>
         THEN AttributeError("'str' object has no attribute 'decode'")
         ELSE ClassifyError(e.msg)
    ELSE DownloadError(<<"Unexpected error: ">> \o e.msg)

TimeoutExpired == Exc("TimeoutExpired", <<"Command timed out after 300 seconds">>, <<>>)
CalledProcessError(stderr) ==
    Exc("CalledProcessError",
        <<"Command '", "yt-dlp --extract-audio", "' returned non-zero exit status 1.">>,
        stderr)
FileNotFoundError == Exc("FileNotFoundError", <<"[Errno 2] No such file or directory">>, <<>>)
PermissionError == Exc("PermissionError", <<"[Errno 13] Permission denied">>, <<>>)

Stderrs ==
    { <<>>,
      <<"ERROR: ", "Private video", ". Sign in">>,
      <<"ERROR: This track is ", "not available">>,
      <<"ERROR: ", "Unsupported URL", ": https://soundcloud.com/a">>,
      <<"ERROR: ", "Unsupported URL", " is ", "not available">>,
      <<"ERROR: HTTP Error 404">> }

ToolExits ==
    { [kind |-> "ok", stderr |-> <<>>], [kind |-> "timeout", stderr |-> <<>>] }
    \cup { [kind |-> "fail", stderr |-> s] : s \in Stderrs }

\* ---------------------------------------------------------------------------
\* The downloads directory.  A produced name is
\* "<timestamp>_<job_id>_<title>.<ext>"; timestamp and job_id have a fixed
\* width, so a name starts with a request's prefix exactly when both agree.
\* ---------------------------------------------------------------------------
Name(ts, job, title, ext) == [ts |-> ts, job |-> job, title |-> title, ext |-> ext]
NoName == Name(0, "", "", "")
Attr(size, mtime, isfile, writer) ==
    [size |-> size, mtime |-> mtime, isfile |-> isfile, writer |-> writer]

Tokens == {"ab12cd34", "ef56ab78"}

StartsWithPrefix(name, ts, job) == name.ts = ts /\ name.job = job /\ job # ""
EndsWithExt(name, format) == name.ext = Lower(format)

\* the extension test alone
MatchesOutputAnyPrefix(name, ts, job, format) == EndsWithExt(name, format)

MatchesOutput(name, ts, job, format) ==
    StartsWithPrefix(name, ts, job) /\ EndsWithExt(name, format)

\* the size check left out
TooLargeNever(size) == FALSE

TooLarge(size) == size > MAX_FILE_SIZE

\* the age test with >= for >
IsOldInclusive(current_time, mtime) == current_time - mtime >= MAX_AGE

\* the age test left out
IsOldAlways(current_time, mtime) == TRUE

IsOld(current_time, mtime) == current_time - mtime > MAX_AGE

NoFiles == [n \in {} |-> Attr(0, 0, TRUE, 0)]
OneFile(name, attr) == [n \in {name} |-> attr]
Without(dir, names) == [n \in (DOMAIN dir) \ names |-> dir[n]]

\* what one run of the tool can leave in the directory: nothing, the file
\* asked for (at or over the size limit, dated now or by the source's
\* Last-Modified), an unconverted part file, or two files of the format
ToolOutputs(r, ts, job, format, clock) ==
    { NoFiles,
      OneFile(Name(ts, job, "Song", format), Attr(MAX_FILE_SIZE, clock, TRUE, r)),
      OneFile(Name(ts, job, "Song", format), Attr(MAX_FILE_SIZE + 1, clock, TRUE, r)),
      OneFile(Name(ts, job, "Song", format), Attr(MAX_FILE_SIZE, 0, TRUE, r)),
      OneFile(Name(ts, job, "Song", "part"), Attr(MAX_FILE_SIZE + 1, clock, TRUE, r)),
      OneFile(Name(ts, job, "Song", format), Attr(MAX_FILE_SIZE, clock, TRUE, r))
        @@ OneFile(Name(ts, job, "Other", format), Attr(MAX_FILE_SIZE + 1, clock, TRUE, r)) }

\* the usual runs of the tool: the one file asked for
CommonOutputs(r, ts, job, format, clock) ==
    {
      OneFile(Name(ts, job, "Song", format), Attr(MAX_FILE_SIZE, clock, TRUE, r)),
      OneFile(Name(ts, job, "Song", format), Attr(MAX_FILE_SIZE + 1, clock, TRUE, r)),
      OneFile(Name(ts, job, "Song", format), Attr(MAX_FILE_SIZE, 0, TRUE, r)) }

CommonExits == { [kind |-> "ok", stderr |-> <<>>], [kind |-> "timeout", stderr |-> <<>>] }

\* what the directory holds when the server starts: a subdirectory, and in
\* the longer-lived directory a file left by an earlier run
FreshDirectory == OneFile(Name(0, "", "sub", ""), Attr(0, 0, FALSE, 0))
UsedDirectory ==
    OneFile(Name(0, "", "old", "mp3"), Attr(MAX_FILE_SIZE, 0, TRUE, 0)) @@ FreshDirectory

\* the yt-dlp command line of app.py 141-153, without the output template
Command(url, format, quality) ==
    <<"yt-dlp", "--extract-audio", "--audio-format", Lower(format), "--no-playlist",
      "--max-filesize", MAX_FILE_SIZE, url>>
    \o (IF Lower(format) = "mp3" THEN <<"--audio-quality", quality>> ELSE <<>>)

\* ---------------------------------------------------------------------------
\* State
\* ---------------------------------------------------------------------------
VARIABLES
    now,       \* the clock, in seconds
    ticks,     \* clock advances so far
    fs,        \* the downloads directory: name -> size, mtime, kind, writer
    req,       \* the POST / requests: position and the pipeline's locals
    started,   \* requests received so far
    timers,    \* threading.Timer objects started and not yet fired
    ev         \* the step just taken: who acted, on what, and the response

vars == <<now, ticks, fs, req, started, timers, ev>>

Requests == 1 .. MaxRequests

IdleReq ==
    [pc |-> "idle", format |-> "", ts |-> 0, job |-> "", filename |-> NoName, invoked |-> FALSE,
     result |-> "none", nsched |-> 0]

BlankEv ==
    [op |-> "init", req |-> 0, status |-> 0, error |-> <<>>, raised |-> NoExc,
     exc |-> NoExc, url |-> EmptyUrl, format |-> "", quality |-> "", found |-> {},
     file |-> NoName, size |-> 0, writer |-> 0, removed |-> {}, listing |-> NoFiles,
     rmfailed |-> FALSE, cleaned |-> 0, sent |-> FALSE, command |-> <<>>]

InFlight(r) == req[r].pc \in {"run", "scan", "size", "send"}

\* a request that ended: the pipeline's locals are gone, what it returned stays
Ended(q, result) ==
    [q EXCEPT !.pc = "done", !.result = result, !.format = ""]

\* the response to an exception the pipeline's try body raised
Failure(op, r, raised) ==
    LET exc == ExecuteExcept(raised)
    IN  [BlankEv EXCEPT !.op = op, !.req = r, !.raised = raised, !.exc = exc,
                        !.status = RouteExcept(exc).status,
                        !.error = RouteExcept(exc).error]

InitWith(dir) ==
    /\ now = StartTime
    /\ ticks = 0
    /\ fs = dir
    /\ req = [r \in Requests |-> IdleReq]
    /\ started = 0
    /\ timers = {}
    /\ ev = BlankEv

\* ---------------------------------------------------------------------------
\* POST /: download_route up to the start of the tool (app.py 260-156)
\* ---------------------------------------------------------------------------
Post(r, url_in, format_in, quality_in, found, job) ==
    /\ r = started + 1
    /\ req[r].pc = "idle"
    /\ started' = r
    /\ LET p == ParseRequest(url_in, format_in, quality_in)
           raised == ExecutePre(p.url, found)
           seen == [BlankEv EXCEPT !.op = "post", !.req = r, !.url = url_in,
                                   !.format = format_in, !.quality = quality_in,
                                   !.found = found]
       IN  IF ~p.proceed
           THEN /\ req' = [req EXCEPT ![r] = Ended(@, "refused")]
                /\ ev' = [seen EXCEPT !.status = p.status, !.error = p.error,
                                      !.exc = p.exc]
           ELSE IF raised # NoExc
           THEN /\ req' = [req EXCEPT ![r] = Ended(@, "failure")]
                /\ ev' = [seen EXCEPT !.raised = raised,
                                      !.exc = Failure("post", r, raised).exc,
                                      !.status = Failure("post", r, raised).status,
                                      !.error = Failure("post", r, raised).error]
           ELSE /\ req' = [req EXCEPT ![r] =
                              [@ EXCEPT !.pc = "run", !.format = p.format,
                                        !.ts = now, !.job = job]]
                /\ ev' = [seen EXCEPT !.command = Command(p.url, p.format, p.quality)]
    /\ UNCHANGED <<now, ticks, fs, timers>>

\* ---------------------------------------------------------------------------
\* subprocess.run: the tool runs, leaves its files and ends (app.py 158-164)
\* ---------------------------------------------------------------------------
Run(r, written, exit) ==
    /\ req[r].pc = "run"
    /\ fs' = written @@ fs
    /\ IF exit.kind = "ok"
       THEN /\ req' = [req EXCEPT ![r].pc = "scan", ![r].invoked = TRUE]
            /\ ev' = [BlankEv EXCEPT !.op = "run", !.req = r]
       ELSE /\ req' = [req EXCEPT ![r] = Ended([@ EXCEPT !.invoked = TRUE], "failure")]
            /\ ev' = Failure("run", r, IF exit.kind = "timeout" THEN TimeoutExpired
                                       ELSE CalledProcessError(exit.stderr))
    /\ UNCHANGED <<now, ticks, started, timers>>

\* ---------------------------------------------------------------------------
\* os.listdir and the choice of downloaded_files[0] (app.py 166-176)
\* ---------------------------------------------------------------------------
DownloadedFiles(dir, ts, job, format) ==
    { n \in DOMAIN dir : MatchesOutput(n, ts, job, format) }

Scan(r) ==
    /\ req[r].pc = "scan"
    /\ LET found == DownloadedFiles(fs, req[r].ts, req[r].job, req[r].format)
       IN  IF found = {}
           THEN /\ req' = [req EXCEPT ![r] = Ended(@, "failure")]
                /\ ev' = Failure("scan", r, DownloadError(<<"File not found after download">>))
           ELSE \E f \in found :
                /\ req' = [req EXCEPT ![r].pc = "size", ![r].filename = f]
                /\ ev' = [BlankEv EXCEPT !.op = "scan", !.req = r, !.file = f]
    /\ UNCHANGED <<now, ticks, fs, started, timers>>

\* ---------------------------------------------------------------------------
\* The size check, the return of the pipeline and, in download_route, the
\* start of the timer (app.py 178-191 and 288-314)
\* ---------------------------------------------------------------------------
\* the timer forgotten
NewTimerNone(r, path, clock) == {}

NewTimer(r, path, clock) == {[req |-> r, path |-> path, due |-> clock + TIMER_DELAY]}

SizeCheck(r, rmfails) ==
    /\ req[r].pc = "size"
    /\ LET f == req[r].filename
           here == [BlankEv EXCEPT !.op = "size", !.req = r, !.file = f]
           fail(raised, removed) ==
               [Failure("size", r, raised) EXCEPT !.file = f, !.removed = removed,
                    !.size = IF f \in DOMAIN fs THEN fs[f].size ELSE 0,
                    !.rmfailed = (raised = PermissionError)]
       IN  IF f \notin DOMAIN fs
           THEN /\ req' = [req EXCEPT ![r] = Ended(@, "failure")]
                /\ ev' = fail(FileNotFoundError, {})
                /\ UNCHANGED <<fs, timers>>
           ELSE IF TooLarge(fs[f].size)
           THEN /\ req' = [req EXCEPT ![r] = Ended(@, "failure")]
                /\ IF rmfails
                   THEN /\ ev' = fail(PermissionError, {})
                        /\ UNCHANGED fs
                   ELSE /\ ev' = fail(DownloadError(<<"File too large">>), {f})
                        /\ fs' = Without(fs, {f})
                /\ UNCHANGED timers
           ELSE /\ ~rmfails
                /\ req' = [req EXCEPT ![r].pc = "send", ![r].result = "success",
                                      ![r].nsched = @ + Cardinality(NewTimer(r, f, now))]
                /\ timers' = timers \cup NewTimer(r, f, now)
                /\ ev' = [here EXCEPT !.size = fs[f].size, !.writer = fs[f].writer]
                /\ UNCHANGED fs
    /\ UNCHANGED <<now, ticks, started>>

\* ---------------------------------------------------------------------------
\* send_file and the end of the request (app.py 316-328)
\* ---------------------------------------------------------------------------
Send(r, sent) ==
    /\ req[r].pc = "send"
    /\ LET f == req[r].filename
           here == [BlankEv EXCEPT !.op = "send", !.req = r, !.file = f]
       IN  IF f \in DOMAIN fs
           THEN ev' = [here EXCEPT !.status = 200, !.sent = sent]
           ELSE /\ ~sent
                /\ ev' = [here EXCEPT !.exc = FileNotFoundError,
                                      !.status = RouteExcept(FileNotFoundError).status,
                                      !.error = RouteExcept(FileNotFoundError).error]
    /\ req' = [req EXCEPT ![r] = Ended(@, "success")]
    /\ UNCHANGED <<now, ticks, fs, started, timers>>

\* ---------------------------------------------------------------------------
\* remove_file, run by the timer's thread (app.py 303-309)
\* ---------------------------------------------------------------------------
remove_file(dir, filepath, rmfails) ==
    IF filepath \in DOMAIN dir /\ ~rmfails THEN Without(dir, {filepath}) ELSE dir

TimerFire(t, rmfails) ==
    /\ t \in timers
    /\ now >= t.due
    /\ rmfails => t.path \in DOMAIN fs
    /\ timers' = timers \ {t}
    /\ fs' = remove_file(fs, t.path, rmfails)
    /\ ev' = [BlankEv EXCEPT !.op = "timer", !.req = t.req, !.file = t.path,
                             !.rmfailed = rmfails,
                             !.removed = (DOMAIN fs) \ (DOMAIN fs')]
    /\ UNCHANGED <<now, ticks, req, started>>

\* ---------------------------------------------------------------------------
\* GET /cleanup (app.py 330-351).  The files are visited in listing order;
\* a removal that fails ends the sweep with the files before it removed.
\* ---------------------------------------------------------------------------
OldFiles(dir, current_time) ==
    { n \in DOMAIN dir : dir[n].isfile /\ IsOld(current_time, dir[n].mtime) }

Sweep(failing, before) ==
    /\ failing \subseteq OldFiles(fs, now)
    /\ Cardinality(failing) <= 1
    /\ before \subseteq OldFiles(fs, now) \ failing
    /\ failing = {} => before = OldFiles(fs, now)
    /\ fs' = Without(fs, before)
    /\ ev' = IF failing = {}
             THEN [BlankEv EXCEPT !.op = "sweep", !.status = 200, !.removed = before,
                                  !.listing = fs, !.cleaned = Cardinality(before)]
             ELSE [BlankEv EXCEPT !.op = "sweep", !.status = 500, !.removed = before,
                                  !.listing = fs, !.rmfailed = TRUE,
                                  !.error = <<"Cleanup failed">>]
    /\ UNCHANGED <<now, ticks, req, started, timers>>

\* ---------------------------------------------------------------------------
\* Time passes.  A started timer fires when it is due, and a request does
\* not outlive the tool's timeout.
\* ---------------------------------------------------------------------------
Advance(d) ==
    /\ ticks < MaxTicks
    /\ \A t \in timers : now + d <= t.due
    /\ \A r \in Requests : InFlight(r) => now + d <= req[r].ts + TOOL_TIMEOUT
    /\ now' = now + d
    /\ ticks' = ticks + 1
    /\ ev' = [BlankEv EXCEPT !.op = "advance"]
    /\ UNCHANGED <<fs, req, started, timers>>

Pipeline(R, every) ==
    \/ \E r \in R :
          \E exit \in IF every THEN ToolExits ELSE CommonExits :
             \E w \in IF every
                       THEN ToolOutputs(r, req[r].ts, req[r].job, req[r].format, now)
                       ELSE CommonOutputs(r, req[r].ts, req[r].job, req[r].format, now) :
                Run(r, w, exit)
    \/ \E r \in R : Scan(r)
    \/ \E r \in R, rmfails \in BOOLEAN : SizeCheck(r, rmfails)
    \/ \E r \in R, sent \in BOOLEAN : Send(r, sent)

Environment ==
    \/ \E t \in timers, rmfails \in BOOLEAN : TimerFire(t, rmfails)
    \/ \E failing \in {{}} \cup {{f} : f \in OldFiles(fs, now)} :
          \E before \in SUBSET (OldFiles(fs, now) \ failing) : Sweep(failing, before)
    \/ \E d \in {TIMER_DELAY, MAX_AGE} : Advance(d)

\* Concurrent requests for one track, the tool running as it usually does
Next ==
    \/ \E r \in Requests, f \in {"mp3", "wav"}, job \in Tokens :
          Post(r, PlainUrl, f, "320", TOOLS, job)
    \/ Pipeline(Requests, FALSE)
    \/ Environment

Init == InitWith(FreshDirectory)

Spec == Init /\ [][Next]_vars

\* One request, with every body of the model
NextInputs ==
    \/ \E u \in UrlInputs, f \in FormatInputs, q \in QualityInputs,
          found \in SUBSET TOOLS, job \in Tokens : Post(1, u, f, q, found, job)
    \/ Pipeline({1}, TRUE)
    \/ Environment

InitInputs == InitWith(UsedDirectory)

SpecInputs == InitInputs /\ [][NextInputs]_vars

\* ===========================================================================
\* The claims
\* ===========================================================================
PipelineFailed(e) == e.op \in {"post", "run", "scan", "size"} /\ e.raised # NoExc

InvalidInputRaised(e) ==
    e.raised \in { DownloadError(<<"Invalid URL format">>),
                   DownloadError(<<"URL must be from SoundCloud">>) }

HostAllowed(u) == Lower(u.host) \in ALLOWED_DOMAINS

\* C1: a POST / request whose pipeline run fails is answered 400 exactly when
\* the failure is the validator's (invalid URL), and 500 for every other
\* pipeline failure.
C1_StatusByFailureClass ==
    PipelineFailed(ev) =>
        /\ ev.status = 400 <=> InvalidInputRaised(ev)
        /\ ~InvalidInputRaised(ev) => ev.status = 500

\* C2: when the pipeline is called with a URL whose host, lower-cased, is not
\* one of the allowed domains, it fails with the validator's message, whatever
\* path, query and installed tools, and the tool is not run for that request;
\* no request that ended before a prefix was generated ever ran the tool.
C2_ForeignHostRejectedBeforeTool ==
    /\ ( /\ ev.op = "post"
         /\ ParseRequest(ev.url, ev.format, ev.quality).proceed
         /\ ~HostAllowed(ev.url) )
       => /\ InvalidInputRaised(ev)
          /\ ev.exc.type = "DownloadError"
          /\ Contains(ev.exc.msg, ev.raised.msg[1])
          /\ req[ev.req].pc = "done"
          /\ req[ev.req].result = "failure"
          /\ ~req[ev.req].invoked
          /\ ev.command = <<>>
    /\ \A r \in Requests : req[r].invoked => req[r].job # ""

C2_Witness ==
    /\ ev.op = "post"
    /\ ev.url.host = "soundcloud.com.evil.example"
    /\ ev.found = {}
    /\ ev.raised = DownloadError(<<"URL must be from SoundCloud">>)
    /\ ~req[ev.req].invoked

OversizedLeft(r) ==
    \E n \in DOMAIN fs :
        /\ n.ts = req[r].ts /\ n.job = req[r].job /\ req[r].job # ""
        /\ fs[n].size > MAX_FILE_SIZE

\* C3 as stated: an oversized found file gives the "File too large" failure
\* and is gone when the pipeline returns, and no failure of the pipeline
\* leaves an oversized file of the request behind.
C3_NoOversizedFileLeft ==
    /\ (ev.op = "size" /\ ev.size > MAX_FILE_SIZE)
       => /\ ev.raised = DownloadError(<<"File too large">>)
          /\ ev.file \notin DOMAIN fs
    /\ PipelineFailed(ev) => ~OversizedLeft(ev.req)

\* C3 amended: an oversized found file whose removal succeeds gives the
\* "File too large" failure and is gone when the pipeline returns; when the
\* removal fails the file stays and the failure is the removal's error.
C3_OversizedFoundFileRemoved ==
    (ev.op = "size" /\ ev.size > MAX_FILE_SIZE)
    => /\ ev.exc.type = "DownloadError"
       /\ req[ev.req].result = "failure"
       /\ req[ev.req].nsched = 0
       /\ IF ev.rmfailed
          THEN /\ ev.raised = PermissionError
               /\ ev.file \in DOMAIN fs
               /\ ev.removed = {}
          ELSE /\ ev.raised = DownloadError(<<"File too large">>)
               /\ Contains(ev.exc.msg, "File too large")
               /\ ev.file \notin DOMAIN fs
               /\ ev.removed = {ev.file}

C3_Witness ==
    /\ ev.op = "size"
    /\ ev.size = MAX_FILE_SIZE + 1
    /\ ~ev.rmfailed
    /\ ev.raised = DownloadError(<<"File too large">>)
    /\ ev.file \notin DOMAIN fs

TimersOf(r) == { t \in timers : t.req = r }

\* C4: a request whose pipeline succeeded has had exactly one timer started,
\* for its file and 60 seconds ahead, before and whatever the outcome of the
\* transmission; a request that failed has none; a timer that fires is gone,
\* answers nobody, and leaves the file absent unless the removal failed.
C4_OneTimerPerSuccess ==
    /\ \A r \in Requests :
          /\ req[r].result = "success" => req[r].nsched = 1
          /\ req[r].result # "success" => (req[r].nsched = 0 /\ TimersOf(r) = {})
          /\ Cardinality(TimersOf(r)) <= 1
          /\ \A t \in TimersOf(r) : t.path = req[r].filename
    /\ (ev.op = "size" /\ ev.raised = NoExc)
       => TimersOf(ev.req) = {[req |-> ev.req, path |-> ev.file, due |-> now + 60]}
    /\ ev.op = "send" => req[ev.req].nsched = 1
    /\ ev.op = "timer"
       => /\ TimersOf(ev.req) = {}
          /\ req[ev.req].nsched = 1
          /\ ev.status = 0 /\ ev.exc = NoExc /\ ev.error = <<>>
          /\ ~ev.rmfailed => ev.file \notin DOMAIN fs
          /\ ev.rmfailed => ev.file \in DOMAIN fs

C4_Witness ==
    /\ ev.op = "timer"
    /\ ev.removed = {ev.file}
    /\ req[ev.req].result = "success"
    /\ req[ev.req].pc = "done"
    /\ req[ev.req].nsched = 1

SweepExact(e) ==
    /\ e.removed = { n \in DOMAIN e.listing :
                        e.listing[n].isfile /\ now - e.listing[n].mtime > MAX_AGE }
    /\ DOMAIN fs = (DOMAIN e.listing) \ e.removed
    /\ e.status = 200
    /\ e.cleaned = Cardinality(e.removed)

\* C5 as stated: every sweep removes exactly the regular files more than one
\* hour old and returns their number.
C5_SweepAlwaysExact == ev.op = "sweep" => SweepExact(ev)

\* C5 amended: a sweep whose removals all succeed removes exactly the regular
\* files more than one hour old and returns their number; a sweep with a
\* failing removal answers 500 without a count, having removed only files
\* more than one hour old.
C5_SweepExactUnlessRemovalFails ==
    ev.op = "sweep" =>
        IF ev.rmfailed
        THEN /\ ev.status = 500
             /\ ev.cleaned = 0
             /\ DOMAIN fs = (DOMAIN ev.listing) \ ev.removed
             /\ \A n \in ev.removed :
                   ev.listing[n].isfile /\ now - ev.listing[n].mtime > MAX_AGE
             /\ \E n \in DOMAIN fs : fs[n].isfile /\ now - fs[n].mtime > MAX_AGE
        ELSE SweepExact(ev)

C5_Witness ==
    /\ ev.op = "sweep"
    /\ ~ev.rmfailed
    /\ ev.cleaned = 1
    /\ \E n \in DOMAIN fs : fs[n].isfile /\ now - fs[n].mtime = MAX_AGE
    /\ \E n \in DOMAIN fs : ~fs[n].isfile /\ now - fs[n].mtime > MAX_AGE

FormatValueRefused(v) == v # Absent /\ (v = NonString \/ Lower(v) \notin {"mp3", "wav", "aac"})

\* C6: a POST / request whose format value is none of mp3, wav, aac (in any
\* letter case) is answered 400 and ends without the pipeline: no tool run,
\* no prefix, no file, no timer.
C6_BadFormatIs400 ==
    (ev.op = "post" /\ FormatValueRefused(ev.format))
    => /\ ev.status = 400
       /\ ev.raised = NoExc
       /\ req[ev.req].pc = "done"
       /\ ~req[ev.req].invoked
       /\ req[ev.req].nsched = 0

\* C7: when the tool exits 0 and no file of the directory matches, the
\* pipeline's failure is "File not found after download" and not of the
\* "Unexpected error: ..." kind.
C7_OutputNotFoundIsItsOwnKind ==
    (ev.op = "scan" /\ ev.file = NoName)
    => /\ ev.exc.type = "DownloadError"
       /\ Contains(ev.exc.msg, "File not found after download")
       /\ ev.exc.msg[1] # "Unexpected error: "

\* C8: a nonzero exit of the tool ends the pipeline with the failure its
\* captured error text selects, for empty and non-empty text alike.
C8_NonzeroExitClassified ==
    (ev.op = "run" /\ ev.raised.type = "CalledProcessError")
    => LET text == ev.raised.stderr
       IN  /\ ev.exc.type = "DownloadError"
           /\ IF Contains(text, "Private video") \/ Contains(text, "not available")
              THEN ev.exc.msg = <<"Track is private or not available">>
              ELSE IF Contains(text, "Unsupported URL")
              THEN ev.exc.msg = <<"Unsupported SoundCloud URL">>
              ELSE ev.exc.msg[1] = "Download failed: "

SamePrefix(r1, r2) == req[r1].ts = req[r2].ts /\ req[r1].job = req[r2].job

\* C9 as stated: a file handed to the request handler is removed by nothing
\* but its own request's timer.
C9_OnlyOwnTimerRemoves ==
    \A r \in Requests :
        (req[r].result = "success" /\ req[r].filename \in ev.removed)
        => (ev.op = "timer" /\ ev.req = r)

\* C9 amended: a file handed to the request handler is removed only by its
\* own request's timer, by a sweep that finds it more than one hour old, or
\* by the size check or timer of a request that generated the same prefix.
C9_RemovedByTimerSweepOrTwin ==
    \A r \in Requests :
        (req[r].result = "success" /\ req[r].filename \in ev.removed)
        => \/ ev.op = "timer" /\ ev.req = r
           \/ /\ ev.op = "sweep"
              /\ now - ev.listing[req[r].filename].mtime > MAX_AGE
           \/ /\ ev.op \in {"timer", "size"}
              /\ ev.req # r
              /\ SamePrefix(ev.req, r)

C9_Witness ==
    /\ ev.op = "sweep"
    /\ \E r \in Requests :
          /\ req[r].result = "success"
          /\ req[r].filename \in ev.removed
          /\ TimersOf(r) = {}
          /\ ev.listing[req[r].filename].mtime = now - MAX_AGE - TIMER_DELAY

\* C10 as stated: a successful call returns a file its own tool run wrote,
\* under its own prefix and extension, and no two calls return one name.
C10_DistinctOwnFiles ==
    /\ (ev.op = "size" /\ ev.raised = NoExc)
       => /\ ev.writer = ev.req
          /\ ev.file.ts = req[ev.req].ts /\ ev.file.job = req[ev.req].job
          /\ ev.file.ext = req[ev.req].format
    /\ \A r1, r2 \in Requests :
          (r1 # r2 /\ req[r1].result = "success" /\ req[r2].result = "success")
          => req[r1].filename # req[r2].filename

\* C10 amended: a successful call returns a name under its own prefix and
\* extension; calls that generated different prefixes return different names,
\* and a call whose prefix no other call generated returns a file its own
\* tool run wrote.
C10_DistinctUnlessSamePrefix ==
    /\ (ev.op = "size" /\ ev.raised = NoExc)
       => /\ ev.file = req[ev.req].filename
          /\ ev.file.ts = req[ev.req].ts /\ ev.file.job = req[ev.req].job
          /\ ev.file.ext = req[ev.req].format
          /\ (\A r \in Requests \ {ev.req} : ~SamePrefix(r, ev.req)) => ev.writer = ev.req
    /\ \A r1, r2 \in Requests :
          ( /\ r1 # r2
            /\ req[r1].result = "success" /\ req[r2].result = "success"
            /\ ~SamePrefix(r1, r2) )
          => req[r1].filename # req[r2].filename

C10_Witness ==
    /\ req[1].result = "success" /\ req[2].result = "success"
    /\ req[1].ts = req[2].ts
    /\ req[1].job # req[2].job
    /\ req[1].filename.ext = req[2].filename.ext
    /\ req[1].filename # req[2].filename
    /\ req[1].pc = "send" /\ req[2].pc = "send"

====
